---- MODULE Spec2Model ----
(***************************************************************************)
(* The authenticated request pipeline of the smartaccounts client:         *)
(* Client.getToken (token memoisation and refresh), the rate limiter       *)
(* created by New, Client.makeRequest (dispatch and status classification), *)
(* the page loop of Client.GetSmartLicenseUsage and the methods that send  *)
(* one request (SearchSubscriptions and the like).                         *)
(*                                                                         *)
(* Time: the wall clock `now` is counted in ticks, TicksPerSecond ticks to *)
(* a second, so that time.Now() has a sub-second part that now.Unix()      *)
(* drops.  Token.ExpiresAt is a whole number of seconds (time.Unix(s, 0)). *)
(* The limiter's time is counted in refill intervals (1/100 s): one Refill *)
(* step is one interval passing while the bucket is below its burst.       *)
(***************************************************************************)
EXTENDS Integers, Sequences, FiniteSets, TLC

\* ---------------------------------------------------------------- bounds
NumProcs == 2
MaxCalls == 2
MaxNow == 3
TicksPerSecond == 2
MaxSlack == 1
MaxTotal == 300
MaxVAs == 2
MaxLoopVAs == 1
MaxEntries == 2

\* ------------------------------------------------------ program constants
FiveMinutes == 300
Burst == 1
limit == 100
StatusOK == 200
StatusCreated == 201

Procs == 1 .. NumProcs
Solo == {1}

Min(a, b) == IF a < b THEN a ELSE b

\* ----------------------------------------------------------------- errors
Err(kind, status) == [kind |-> kind, status |-> status]
NoErr == Err("nil", 0)
ErrBadRequest == Err("ccw: bad request", 0)
ErrUnauthorized == Err("ccw: unauthorized request", 0)
ErrForbidden == Err("ccw: forbidden", 0)
ErrNotFound == Err("ccw: not found", 0)
ErrInternalError == Err("ccw: internal error", 0)
Sentinels == {ErrBadRequest, ErrUnauthorized, ErrForbidden, ErrNotFound, ErrInternalError}

\* Mutant: the constant ErrUnknown, which carries no status.
UnknownError_Constant(status) == Err("ccw: unexpected error occurred", 0)

\* fmt.Errorf("unknown error: %s", res.Status): the status text is the code here.
UnknownError(status) == Err("unknown error", status)
\* Errors of the libraries the client calls.
DecodeError == Err("json", 0)
TransportError == Err("transport", 0)
ContextError == Err("context", 0)

\* ------------------------------------------------------------------ token
\* A *Token: id is the identity of the allocation (0 is the nil pointer).
Token(id, accessToken, expiresIn, expiresAt) ==
    [id |-> id, AccessToken |-> accessToken, ExpiresIn |-> expiresIn, ExpiresAt |-> expiresAt]
NilToken == Token(0, <<>>, 0, 0)

\* now.Unix(): whole seconds, the sub-second part dropped.
Unix(t) == t \div TicksPerSecond

\* c.token.ExpiresAt.Sub(now), in ticks.
Sub(expiresAt, t) == expiresAt * TicksPerSecond - t

\* Mutant: the threshold taken a second too long.
Memoised_Late(tk, t) == tk.id # 0 /\ Sub(tk.ExpiresAt, t) > (FiveMinutes + 1) * TicksPerSecond

\* Mutant: >= for >, a token with exactly five minutes left is still returned.
Memoised_Boundary(tk, t) == tk.id # 0 /\ Sub(tk.ExpiresAt, t) >= FiveMinutes * TicksPerSecond

\* c.token != nil && c.token.ExpiresAt.Sub(now).Minutes() > 5
Memoised(tk, t) == tk.id # 0 /\ Sub(tk.ExpiresAt, t) > FiveMinutes * TicksPerSecond

\* Mutant: expires_in left out of the sum.
ExpiresAtOf_NoExpiresIn(t, expiresIn) == Unix(t)

\* t.ExpiresAt = time.Unix(now.Unix()+t.ExpiresIn, 0)
ExpiresAtOf(t, expiresIn) == Unix(t) + expiresIn

\* What the authorization endpoint may answer.  The body is a token document,
\* a JSON error document (no token field in it) or not JSON at all.
ExpiresInValues == {0} \cup (FiveMinutes .. FiveMinutes + MaxSlack)
AuthResponses ==
    [status : {200}, body : {"token"}, ExpiresIn : ExpiresInValues]
    \cup [status : {401}, body : {"error"}, ExpiresIn : {0}]
    \cup [status : {200, 401}, body : {"malformed"}, ExpiresIn : {0}]

\* The access_token of the document answering the exchange with serial number
\* id: the endpoint issues a new one with every grant; an error document has none.
AccessTokenOf(id, r) == IF r.body = "token" THEN <<"access_token", id>> ELSE <<>>

\* Mutant: the request goes out with no credentials.
Bearer_Anonymous(tk) == <<>>

\* req.Header.Set("Authorization", "Bearer "+token.AccessToken)
Bearer(tk) == tk.AccessToken

\* --------------------------------------------------------- classification
Statuses == {200, 201, 400, 401, 403, 404, 418, 500}
\* The body of an API response: decodable, not JSON (nothing is stored), or JSON
\* of the wrong shape (json stores what fits and returns the first mismatch).
Bodies == {"ok", "syntax", "type"}

\* Mutant: the cases of 401 and 403 exchanged.
StatusError_Swapped(status) ==
    CASE status = 400 -> ErrBadRequest
      [] status = 401 -> ErrForbidden
      [] status = 403 -> ErrUnauthorized
      [] status = 404 -> ErrNotFound
      [] status = 500 -> ErrInternalError
      [] OTHER -> UnknownError(status)

\* The switch on res.StatusCode.
StatusError(status) ==
    CASE status = 400 -> ErrBadRequest
      [] status = 401 -> ErrUnauthorized
      [] status = 403 -> ErrForbidden
      [] status = 404 -> ErrNotFound
      [] status = 500 -> ErrInternalError
      [] OTHER -> UnknownError(status)

\* json.NewDecoder(res.Body).Decode(&v): the error and what became of v.
Decode(body) ==
    CASE body = "ok" -> [err |-> NoErr, sink |-> "decoded"]
      [] body = "syntax" -> [err |-> DecodeError, sink |-> "untouched"]
      [] OTHER -> [err |-> DecodeError, sink |-> "partial"]

\* makeRequest after HTTPClient.Do returned a response.
Classify(status, body) ==
    IF status # StatusOK
    THEN [err |-> StatusError(status), sink |-> "untouched"]
    ELSE IF status = StatusCreated
         THEN [err |-> NoErr, sink |-> "untouched"]
         ELSE Decode(body)

\* ------------------------------------------------------------- pagination
\* The upstream of the licenses endpoint: a fixed total, and for an offset the
\* items offset .. min(offset+limit, total)-1 of the virtual account.
UpstreamPage(T, v, o, lim) ==
    [TotalRecords |-> T,
     Licenses |-> [i \in 1 .. (IF Min(o + lim, T) > o THEN Min(o + lim, T) - o ELSE 0)
                    |-> <<v, o + i - 1>>]]
NoPage == [TotalRecords |-> 0, Licenses |-> <<>>]

\* A page of an upstream that answers as it likes: n items from the offset o on,
\* and any total.
AnyPage(T, v, o, n) == [TotalRecords |-> T, Licenses |-> [i \in 1 .. n |-> <<v, o + i - 1>>]]
\* The page lengths and totals such an upstream answers with: a short and a full
\* page; a total below the page size and the largest total.
PageSizes == {limit \div 2, limit}
PageTotals == {limit - 1, MaxTotal}
NoResponse == [status |-> 0, body |-> "none"]

\* What Decode leaves in lr for the page pg: all of it; nothing when the body is
\* not JSON; and when a field has the wrong type (here totalRecords), the others.
DecodedPage(body, pg) ==
    CASE body = "ok" -> pg
      [] body = "syntax" -> NoPage
      [] OTHER -> [pg EXCEPT !.TotalRecords = 0]

\* The totals the upstream reports: around every multiple of the page size.
Totals == {T \in 0 .. MaxTotal : T % limit \in {0, 1, limit \div 2, limit - 1}}

\* Mutant: the test of the advanced offset against the total left out.
PageBreak_NoOffsetTest(err, page, off) ==
    \/ err # NoErr
    \/ page.TotalRecords < limit

\* The page loop's exits: the request failed, lr.TotalRecords < limit, or
\* offset += limit went past lr.TotalRecords.
PageBreak(err, page, off) ==
    \/ err # NoErr
    \/ page.TotalRecords < limit
    \/ off + limit > page.TotalRecords

\* Mutant: a failed request ends the method (return for break).
NextVA_Abort(err, v, n) == IF err = NoErr /\ v < n THEN v + 1 ELSE 0

\* The virtual account the range loop goes on with when the page loop of the
\* v-th of n has ended, however it ended (0: none is left).
NextVA(err, v, n) == IF v < n THEN v + 1 ELSE 0

\* Mutant: the page replaces the accumulator.
Accumulate_Overwrite(acc, err, page) == IF err # NoErr THEN acc ELSE page.Licenses

\* licenses = append(licenses, lr.Licenses...), which a failed request skips.
Accumulate(acc, err, page) == IF err # NoErr THEN acc ELSE acc \o page.Licenses

\* Mutant: the last request's error is returned.
UsageError_Propagate(err) == err

\* return &licenses, nil
UsageError(err) == NoErr

\* ---------------------------------------------------------------- methods
\* The methods that send one request.
Methods == {"SearchSubscriptions", "GetEASmartAccountSubscriptionConsumptionReport",
            "SearchSmartAccountsByDomain", "GetVirtualAccounts", "GetAllSmartAccounts"}
\* Those that build the URL from an argument, so that http.NewRequest may fail.
URLMethods == {"GetEASmartAccountSubscriptionConsumptionReport",
               "SearchSmartAccountsByDomain", "GetVirtualAccounts"}
URLError == Err("url", 0)

\* The JSON documents the API answers with: a list of entries, each an object
\* with a reference id; the same entry may come more than once.
Entries == [subRefId : {"A", "B"}]
RECURSIVE SeqsUpTo(_, _)
SeqsUpTo(S, n) ==
    IF n = 0 THEN {<<>>}
    ELSE SeqsUpTo(S, n - 1) \cup {Append(d, e) : d \in {x \in SeqsUpTo(S, n - 1) : Len(x) = n - 1}, e \in S}
Docs == SeqsUpTo(Entries, MaxEntries)

\* Mutant: an entry already decoded is left out.
RECURSIVE DecodeDoc_Dedup(_)
DecodeDoc_Dedup(d) ==
    IF d = <<>> THEN <<>>
    ELSE LET k == Len(d)
             front == DecodeDoc_Dedup(SubSeq(d, 1, k - 1))
             e == [SubRefID |-> d[k].subRefId]
         IN IF \E i \in 1 .. Len(front) : front[i] = e THEN front ELSE Append(front, e)

\* Decode of the document into the response struct: one element for every
\* entry of the array, in the array's order, the field set from its JSON key.
DecodeDoc(d) == [i \in 1 .. Len(d) |-> [SubRefID |-> d[i].subRefId]]

\* A method's result: nil, or the decoded response.
NilResult == [nil |-> TRUE, entries |-> <<>>]
NoInvocation == [op |-> "none", doc |-> <<>>, err |-> NoErr, result |-> NilResult]

\* Mutant: a failure is reported as the package's ErrUnknown.
MethodError_Sentinel(err) == IF err = NoErr THEN NoErr ELSE Err("ccw: unexpected error occurred", 0)

\* if err != nil { return nil, err }; return &ssr, nil
MethodError(err) == err
MethodResult(err, v) == IF err # NoErr THEN NilResult ELSE [nil |-> FALSE, entries |-> v]

\* The work of one method invocation: makeRequest calls, token exchanges sent,
\* API requests sent.
NoWork == [requests |-> 0, exchanges |-> 0, sends |-> 0]
OneRequest == [requests |-> 1, exchanges |-> 0, sends |-> 0]

\* Mutant: Close called at the end of the success path only.
BodyCloses_SuccessOnly(err) == IF err = NoErr THEN 1 ELSE 0

\* defer res.Body.Close(): the Close calls on a response body by the time the
\* function returns err.
BodyCloses(err) == 1
NoBodies == [auth |-> 0, api |-> 0]

\* ------------------------------------------------------------------ state
VARIABLES
    now,         \* time.Now(), in ticks
    token,       \* c.token
    limTokens,   \* c.lim: permits in the bucket (negative: reserved ahead)
    refilled,    \* permits the bucket has gained since New
    exchanges,   \* requests sent to the authorization endpoint
    dispatched,  \* API requests sent by HTTPClient.Do
    calls,       \* makeRequest calls started
    total,       \* the upstream's total record count
    numVAs,      \* len(*sa.VirtualAccounts)
    pc,          \* where each caller stands
    op,          \* the method each caller runs
    ctx,         \* makeRequest's ctx: [kind, done]
    startNow,    \* getToken's now
    tok,         \* the token getToken returned to makeRequest
    tokSrc,      \* "cache" or "exchange": where tok came from
    slot0,       \* c.token as getToken found it
    exch,        \* serial numbers of the token exchanges this call sent
    authStatus,  \* status of the authorization endpoint's answer
    wait,        \* refill intervals left of this caller's reservation
    permit,      \* this call holds a limiter permit
    waitErr,     \* c.lim.Wait returned an error
    sent,        \* this call's API request was sent
    bearer,      \* the Authorization header of req
    resp,        \* res: [status, body] (status 0: no response)
    ret,         \* makeRequest's returned error
    sink,        \* what became of v
    lr,          \* GetSmartLicenseUsage: the decoded LicenseResponse
    va,          \* GetSmartLicenseUsage: index of the virtual account
    offset,      \* GetSmartLicenseUsage: offset
    licenses,    \* GetSmartLicenseUsage: licenses
    fetched,     \* GetSmartLicenseUsage: the pages requested so far, [va, offset, ok, n, total]
    uerr,        \* the error the method returned
    work,        \* this method invocation so far: [requests, exchanges, sends]
    closed,      \* Close calls on the bodies of this request: [auth, api]
    doc,         \* the JSON document of the API's answer
    out,         \* the method's response variable (ssr, sr, ...) that v points to
    result,      \* the result the method returned
    prev         \* the invocation before this one: [op, doc, err, result]

clientVars == <<now, token, limTokens, refilled, exchanges, dispatched, calls, total, numVAs>>
callVars == <<pc, op, ctx, startNow, tok, tokSrc, slot0, exch, authStatus, wait, permit,
              waitErr, sent, bearer, resp, ret, sink>>
pageVars == <<lr, va, offset, licenses, fetched, uerr>>
methodVars == <<doc, out, result, prev>>
vars == <<clientVars, callVars, pageVars, work, closed, methodVars>>

Background == [kind |-> "background", done |-> FALSE]
\* context.Background(), a cancellable context, and a context whose deadline is
\* nearer than one refill interval.
Contexts == {Background, [kind |-> "cancel", done |-> FALSE], [kind |-> "deadline", done |-> FALSE]}

\* New: no token, a full bucket of burst 1.
InitClient ==
    /\ now = 0
    /\ token = NilToken
    /\ limTokens = Burst
    /\ refilled = 0
    /\ exchanges = 0
    /\ dispatched = 0
    /\ calls = 0

InitCallers ==
    /\ pc = [p \in Procs |-> "idle"]
    /\ op = [p \in Procs |-> "none"]
    /\ ctx = [p \in Procs |-> Background]
    /\ startNow = [p \in Procs |-> 0]
    /\ tok = [p \in Procs |-> NilToken]
    /\ tokSrc = [p \in Procs |-> "none"]
    /\ slot0 = [p \in Procs |-> NilToken]
    /\ exch = [p \in Procs |-> <<>>]
    /\ authStatus = [p \in Procs |-> 0]
    /\ wait = [p \in Procs |-> 0]
    /\ permit = [p \in Procs |-> FALSE]
    /\ waitErr = [p \in Procs |-> FALSE]
    /\ sent = [p \in Procs |-> FALSE]
    /\ bearer = [p \in Procs |-> <<>>]
    /\ resp = [p \in Procs |-> NoResponse]
    /\ ret = [p \in Procs |-> NoErr]
    /\ sink = [p \in Procs |-> "untouched"]
    /\ lr = [p \in Procs |-> NoPage]
    /\ va = [p \in Procs |-> 0]
    /\ offset = [p \in Procs |-> 0]
    /\ licenses = [p \in Procs |-> <<>>]
    /\ fetched = [p \in Procs |-> <<>>]
    /\ uerr = [p \in Procs |-> NoErr]
    /\ work = [p \in Procs |-> NoWork]
    /\ closed = [p \in Procs |-> NoBodies]
    /\ doc = [p \in Procs |-> <<>>]
    /\ out = [p \in Procs |-> <<>>]
    /\ result = [p \in Procs |-> NilResult]
    /\ prev = [p \in Procs |-> NoInvocation]

Init ==
    /\ InitClient
    /\ InitCallers
    /\ total = 0
    /\ numVAs = 0

\* ------------------------------------------------------------ makeRequest
\* Entry of makeRequest(ctx, req, v) from method o: fresh locals.
BeginRequest(p, o, c) ==
    /\ calls' = calls + 1
    /\ pc' = [pc EXCEPT ![p] = "getToken"]
    /\ op' = [op EXCEPT ![p] = o]
    /\ ctx' = [ctx EXCEPT ![p] = c]
    /\ startNow' = [startNow EXCEPT ![p] = 0]
    /\ tok' = [tok EXCEPT ![p] = NilToken]
    /\ tokSrc' = [tokSrc EXCEPT ![p] = "none"]
    /\ slot0' = [slot0 EXCEPT ![p] = NilToken]
    /\ exch' = [exch EXCEPT ![p] = <<>>]
    /\ authStatus' = [authStatus EXCEPT ![p] = 0]
    /\ wait' = [wait EXCEPT ![p] = 0]
    /\ permit' = [permit EXCEPT ![p] = FALSE]
    /\ waitErr' = [waitErr EXCEPT ![p] = FALSE]
    /\ sent' = [sent EXCEPT ![p] = FALSE]
    /\ bearer' = [bearer EXCEPT ![p] = <<>>]
    /\ resp' = [resp EXCEPT ![p] = NoResponse]
    /\ ret' = [ret EXCEPT ![p] = NoErr]
    /\ sink' = [sink EXCEPT ![p] = "untouched"]
    /\ closed' = [closed EXCEPT ![p] = NoBodies]

\* A caller invokes makeRequest with some context (the single-request methods
\* pass context.Background()).
Call(p, c) ==
    /\ pc[p] = "idle"
    /\ calls < MaxCalls
    /\ BeginRequest(p, "makeRequest", c)
    /\ UNCHANGED <<now, token, limTokens, refilled, exchanges, dispatched, total, numVAs>>
    /\ UNCHANGED pageVars
    /\ work' = [work EXCEPT ![p] = OneRequest]
    /\ UNCHANGED methodVars

\* c.token is read and written with no lock and no atomic.  The caller that
\* stored the token in the slot has synchronised with nobody until it reaches
\* the limiter's mutex: until then another caller's reads race with its writes.
Racing(p) ==
    /\ token.id # 0
    /\ \E q \in Procs \ {p} : pc[q] = "limiter" /\ tokSrc[q] = "exchange" /\ tok[q].id = token.id

\* What caller p may read through c.token: the token as written, or, while the
\* reads race, any of the fields getToken and makeRequest read (ExpiresAt,
\* AccessToken) still at its zero value.
Views(p) ==
    IF Racing(p)
    THEN {[token EXCEPT !.AccessToken = a, !.ExpiresAt = e] :
             a \in {token.AccessToken, <<>>}, e \in {token.ExpiresAt, 0}}
    ELSE {token}

\* getToken, the memoised branch: return c.token; makeRequest sets the header.
GetTokenMemoised(p) ==
    /\ pc[p] = "getToken"
    /\ \E v \in Views(p) :
          /\ Memoised(v, now)
          /\ slot0' = [slot0 EXCEPT ![p] = v]
          /\ bearer' = [bearer EXCEPT ![p] = Bearer(v)]
    /\ startNow' = [startNow EXCEPT ![p] = now]
    /\ tok' = [tok EXCEPT ![p] = token]
    /\ tokSrc' = [tokSrc EXCEPT ![p] = "cache"]
    /\ pc' = [pc EXCEPT ![p] = "limiter"]
    /\ UNCHANGED <<clientVars, pageVars>>
    /\ UNCHANGED <<op, ctx, exch, authStatus, wait, permit, waitErr, sent, resp, ret, sink>>
    /\ UNCHANGED <<work, closed, methodVars>>

\* getToken, the refresh branch up to client.Do(req): the exchange is sent.
GetTokenRefresh(p) ==
    /\ pc[p] = "getToken"
    /\ \E v \in Views(p) :
          /\ ~Memoised(v, now)
          /\ slot0' = [slot0 EXCEPT ![p] = v]
    /\ startNow' = [startNow EXCEPT ![p] = now]
    /\ exchanges' = exchanges + 1
    /\ exch' = [exch EXCEPT ![p] = Append(@, exchanges + 1)]
    /\ pc' = [pc EXCEPT ![p] = "exchange"]
    /\ UNCHANGED <<now, token, limTokens, refilled, dispatched, calls, total, numVAs>>
    /\ UNCHANGED pageVars
    /\ UNCHANGED <<op, ctx, tok, tokSrc, authStatus, wait, permit, waitErr, sent, bearer,
                   resp, ret, sink>>
    /\ work' = [work EXCEPT ![p].exchanges = @ + 1]
    /\ UNCHANGED <<closed, methodVars>>

\* client.Do(req) of getToken fails: getToken returns (nil, err), makeRequest err.
ExchangeError(p) ==
    /\ pc[p] = "exchange"
    /\ ret' = [ret EXCEPT ![p] = TransportError]
    /\ pc' = [pc EXCEPT ![p] = "ret"]
    /\ UNCHANGED <<clientVars, pageVars>>
    /\ UNCHANGED <<op, ctx, startNow, tok, tokSrc, slot0, exch, authStatus, wait, permit,
                   waitErr, sent, bearer, resp, sink>>
    /\ UNCHANGED <<work, closed, methodVars>>

\* The token decoded from the answer r of the exchange with serial number id,
\* started at time t: fields missing from the document stay zero.
DecodedToken(id, r, t) ==
    Token(id, AccessTokenOf(id, r), r.ExpiresIn, ExpiresAtOf(t, r.ExpiresIn))

\* Mutant: the token is stored before the decode error is looked at.
Stored_Early(old, new, err) == new

\* c.token after getToken: c.token = &t is reached only past every error return.
Stored(old, new, err) == IF err # NoErr THEN old ELSE new

\* The authorization endpoint answers: the body is decoded whatever the status;
\* on success the token is stored in c.token and returned.
ExchangeResponse(p, r) ==
    /\ pc[p] = "exchange"
    /\ authStatus' = [authStatus EXCEPT ![p] = r.status]
    /\ token' = Stored(token, DecodedToken(exch[p][Len(exch[p])], r, startNow[p]),
                        IF r.body = "malformed" THEN DecodeError ELSE NoErr)
    /\ IF r.body = "malformed"
       THEN /\ ret' = [ret EXCEPT ![p] = DecodeError]
            /\ pc' = [pc EXCEPT ![p] = "ret"]
            /\ UNCHANGED <<tok, tokSrc, bearer>>
       ELSE /\ tok' = [tok EXCEPT ![p] = token']
            /\ tokSrc' = [tokSrc EXCEPT ![p] = "exchange"]
            /\ bearer' = [bearer EXCEPT ![p] = Bearer(token')]
            /\ pc' = [pc EXCEPT ![p] = "limiter"]
            /\ UNCHANGED ret
    /\ UNCHANGED <<now, limTokens, refilled, exchanges, dispatched, calls, total, numVAs>>
    /\ UNCHANGED pageVars
    /\ UNCHANGED <<op, ctx, startNow, slot0, exch, wait, permit, waitErr, sent, resp, sink>>
    /\ closed' = [closed EXCEPT ![p].auth = @ + BodyCloses(IF r.body = "malformed" THEN DecodeError ELSE NoErr)]
    /\ UNCHANGED <<work, methodVars>>

\* c.lim.Allow() finds a permit and takes it.
LimAllow(p) ==
    /\ pc[p] = "limiter"
    /\ limTokens >= 1
    /\ limTokens' = limTokens - 1
    /\ permit' = [permit EXCEPT ![p] = TRUE]
    /\ pc' = [pc EXCEPT ![p] = "do"]
    /\ UNCHANGED <<now, token, refilled, exchanges, dispatched, calls, total, numVAs>>
    /\ UNCHANGED pageVars
    /\ UNCHANGED <<op, ctx, startNow, tok, tokSrc, slot0, exch, authStatus, wait, waitErr,
                   sent, bearer, resp, ret, sink>>
    /\ UNCHANGED <<work, closed, methodVars>>

\* Whether c.lim.Wait(ctx) fails at once: ctx is done, or its deadline is nearer
\* than the wait the reservation needs.
WaitRefused(c) == c.done \/ c.kind = "deadline"

\* c.lim.Allow() finds none: c.lim.Wait(ctx).  A refused Wait returns an error,
\* which makeRequest drops; otherwise a permit is reserved and the caller sleeps.
LimWait(p) ==
    /\ pc[p] = "limiter"
    /\ limTokens < 1
    /\ IF WaitRefused(ctx[p])
       THEN /\ waitErr' = [waitErr EXCEPT ![p] = TRUE]
            /\ pc' = [pc EXCEPT ![p] = "do"]
            /\ UNCHANGED <<limTokens, wait>>
       ELSE /\ limTokens' = limTokens - 1
            /\ wait' = [wait EXCEPT ![p] = 1 - limTokens]
            /\ pc' = [pc EXCEPT ![p] = "waiting"]
            /\ UNCHANGED waitErr
    /\ UNCHANGED <<now, token, refilled, exchanges, dispatched, calls, total, numVAs>>
    /\ UNCHANGED pageVars
    /\ UNCHANGED <<op, ctx, startNow, tok, tokSrc, slot0, exch, authStatus, permit, sent,
                   bearer, resp, ret, sink>>
    /\ UNCHANGED <<work, closed, methodVars>>

\* The reservation's time has come: Wait returns nil.
WaitDone(p) ==
    /\ pc[p] = "waiting"
    /\ wait[p] = 0
    /\ permit' = [permit EXCEPT ![p] = TRUE]
    /\ pc' = [pc EXCEPT ![p] = "do"]
    /\ UNCHANGED <<clientVars, pageVars>>
    /\ UNCHANGED <<op, ctx, startNow, tok, tokSrc, slot0, exch, authStatus, wait, waitErr,
                   sent, bearer, resp, ret, sink>>
    /\ UNCHANGED <<work, closed, methodVars>>

\* Reservation.Cancel: the permit goes back unless the reservation's time has
\* come or a later reservation was made on top of it.
Restored(p) ==
    IF wait[p] > 0 /\ \A q \in Procs : pc[q] = "waiting" => wait[q] <= wait[p]
    THEN 1 ELSE 0

\* ctx is done while Wait sleeps: the reservation is cancelled and Wait returns
\* ctx.Err(), which makeRequest drops.
WaitCancelled(p) ==
    /\ pc[p] = "waiting"
    /\ ctx[p].done
    /\ limTokens' = limTokens + Restored(p)
    /\ wait' = [wait EXCEPT ![p] = 0]
    /\ waitErr' = [waitErr EXCEPT ![p] = TRUE]
    /\ pc' = [pc EXCEPT ![p] = "do"]
    /\ UNCHANGED <<now, token, refilled, exchanges, dispatched, calls, total, numVAs>>
    /\ UNCHANGED pageVars
    /\ UNCHANGED <<op, ctx, startNow, tok, tokSrc, slot0, exch, authStatus, permit, sent,
                   bearer, resp, ret, sink>>
    /\ UNCHANGED <<work, closed, methodVars>>

\* c.HTTPClient.Do(req.WithContext(ctx)): with ctx done the transport returns
\* ctx.Err() before sending; otherwise the request is sent.
Do(p) ==
    /\ pc[p] = "do"
    /\ IF ctx[p].done
       THEN /\ ret' = [ret EXCEPT ![p] = ContextError]
            /\ pc' = [pc EXCEPT ![p] = "ret"]
            /\ UNCHANGED <<dispatched, sent, work>>
       ELSE /\ dispatched' = dispatched + 1
            /\ work' = [work EXCEPT ![p].sends = @ + 1]
            /\ sent' = [sent EXCEPT ![p] = TRUE]
            /\ pc' = [pc EXCEPT ![p] = "inflight"]
            /\ UNCHANGED ret
    /\ UNCHANGED <<now, token, limTokens, refilled, exchanges, calls, total, numVAs>>
    /\ UNCHANGED pageVars
    /\ UNCHANGED <<op, ctx, startNow, tok, tokSrc, slot0, exch, authStatus, wait, permit,
                   waitErr, bearer, resp, sink>>
    /\ UNCHANGED <<closed, methodVars>>

\* The round trip fails (network error, timeout, ctx done in flight).
DoError(p) ==
    /\ pc[p] = "inflight"
    /\ ret' = [ret EXCEPT ![p] = IF ctx[p].done THEN ContextError ELSE TransportError]
    /\ pc' = [pc EXCEPT ![p] = "ret"]
    /\ UNCHANGED <<clientVars, pageVars>>
    /\ UNCHANGED <<op, ctx, startNow, tok, tokSrc, slot0, exch, authStatus, wait, permit,
                   waitErr, sent, bearer, resp, sink>>
    /\ UNCHANGED <<work, closed, methodVars>>

\* A response arrives: classification by status, decoding on 200.
Response(p, status, body) ==
    /\ pc[p] = "inflight"
    /\ resp' = [resp EXCEPT ![p] = [status |-> status, body |-> body]]
    /\ ret' = [ret EXCEPT ![p] = Classify(status, body).err]
    /\ sink' = [sink EXCEPT ![p] = Classify(status, body).sink]
    /\ lr' = [lr EXCEPT ![p] =
                IF op[p] = "usage" /\ Classify(status, body).sink # "untouched"
                THEN DecodedPage(body, UpstreamPage(total, va[p], offset[p], limit))
                ELSE @]
    /\ pc' = [pc EXCEPT ![p] = "ret"]
    /\ UNCHANGED clientVars
    /\ UNCHANGED <<va, offset, licenses, fetched, uerr>>
    /\ UNCHANGED <<op, ctx, startNow, tok, tokSrc, slot0, exch, authStatus, wait, permit,
                   waitErr, sent, bearer>>
    /\ closed' = [closed EXCEPT ![p].api = @ + BodyCloses(Classify(status, body).err)]
    /\ UNCHANGED <<work, methodVars>>

\* The licenses endpoint answers 200 with a page of its own making, which
\* makeRequest decodes into lr.
PageResponse(p, T, n) ==
    /\ pc[p] = "inflight"
    /\ op[p] = "usage"
    /\ resp' = [resp EXCEPT ![p] = [status |-> StatusOK, body |-> "ok"]]
    /\ ret' = [ret EXCEPT ![p] = Classify(StatusOK, "ok").err]
    /\ sink' = [sink EXCEPT ![p] = Classify(StatusOK, "ok").sink]
    /\ lr' = [lr EXCEPT ![p] = AnyPage(T, va[p], offset[p], n)]
    /\ pc' = [pc EXCEPT ![p] = "ret"]
    /\ UNCHANGED clientVars
    /\ UNCHANGED <<va, offset, licenses, fetched, uerr>>
    /\ UNCHANGED <<op, ctx, startNow, tok, tokSrc, slot0, exch, authStatus, wait, permit,
                   waitErr, sent, bearer>>
    /\ closed' = [closed EXCEPT ![p].api = @ + BodyCloses(Classify(StatusOK, "ok").err)]
    /\ UNCHANGED <<work, methodVars>>

\* makeRequest has returned to a caller that called it directly; its frame is gone.
Return(p) ==
    /\ pc[p] = "ret"
    /\ op[p] = "makeRequest"
    /\ pc' = [pc EXCEPT ![p] = "idle"]
    /\ op' = [op EXCEPT ![p] = "none"]
    /\ ctx' = [ctx EXCEPT ![p] = Background]
    /\ startNow' = [startNow EXCEPT ![p] = 0]
    /\ tok' = [tok EXCEPT ![p] = NilToken]
    /\ tokSrc' = [tokSrc EXCEPT ![p] = "none"]
    /\ slot0' = [slot0 EXCEPT ![p] = NilToken]
    /\ exch' = [exch EXCEPT ![p] = <<>>]
    /\ authStatus' = [authStatus EXCEPT ![p] = 0]
    /\ wait' = [wait EXCEPT ![p] = 0]
    /\ permit' = [permit EXCEPT ![p] = FALSE]
    /\ waitErr' = [waitErr EXCEPT ![p] = FALSE]
    /\ sent' = [sent EXCEPT ![p] = FALSE]
    /\ bearer' = [bearer EXCEPT ![p] = <<>>]
    /\ resp' = [resp EXCEPT ![p] = NoResponse]
    /\ ret' = [ret EXCEPT ![p] = NoErr]
    /\ sink' = [sink EXCEPT ![p] = "untouched"]
    /\ UNCHANGED <<clientVars, pageVars>>
    /\ work' = [work EXCEPT ![p] = NoWork]
    /\ closed' = [closed EXCEPT ![p] = NoBodies]
    /\ UNCHANGED methodVars

\* --------------------------------------------------- GetSmartLicenseUsage
\* GetSmartLicenseUsage(sa): licenses := []License{}; with a virtual account,
\* offset, limit := 0, 100 and the first makeRequest(context.Background(), ...)
\* (json.Marshal and http.NewRequest cannot fail on these arguments).
UsageCall(p) ==
    /\ pc[p] = "idle"
    /\ licenses' = [licenses EXCEPT ![p] = <<>>]
    /\ fetched' = [fetched EXCEPT ![p] = <<>>]
    /\ offset' = [offset EXCEPT ![p] = 0]
    /\ uerr' = [uerr EXCEPT ![p] = NoErr]
    /\ lr' = [lr EXCEPT ![p] = NoPage]
    /\ IF numVAs = 0
       THEN /\ pc' = [pc EXCEPT ![p] = "returned"]
            /\ op' = [op EXCEPT ![p] = "usage"]
            /\ va' = [va EXCEPT ![p] = 0]
            /\ work' = [work EXCEPT ![p] = NoWork]
            /\ UNCHANGED <<calls, ctx, startNow, tok, tokSrc, slot0, exch, authStatus, wait,
                           permit, waitErr, sent, bearer, resp, ret, sink, closed>>
       ELSE /\ va' = [va EXCEPT ![p] = 1]
            /\ work' = [work EXCEPT ![p] = OneRequest]
            /\ BeginRequest(p, "usage", Background)
    /\ UNCHANGED <<now, token, limTokens, refilled, exchanges, dispatched, total, numVAs>>
    /\ UNCHANGED methodVars

\* makeRequest has returned to the page loop: the error is logged and ends the
\* loop, or the page is appended and the loop's exits are tested; then the next
\* page, the next virtual account, or return &licenses, nil.
PageResult(p) ==
    /\ pc[p] = "ret"
    /\ op[p] = "usage"
    /\ licenses' = [licenses EXCEPT ![p] = Accumulate(@, ret[p], lr[p])]
    /\ fetched' = [fetched EXCEPT ![p] =
                     Append(@, [va |-> va[p], offset |-> offset[p], ok |-> ret[p] = NoErr,
                                n |-> Len(lr[p].Licenses), total |-> lr[p].TotalRecords])]
    /\ lr' = [lr EXCEPT ![p] = NoPage]
    /\ IF ~PageBreak(ret[p], lr[p], offset[p])
       THEN /\ offset' = [offset EXCEPT ![p] = @ + limit]
            /\ work' = [work EXCEPT ![p].requests = @ + 1]
            /\ BeginRequest(p, "usage", Background)
            /\ UNCHANGED <<va, uerr>>
       ELSE IF NextVA(ret[p], va[p], numVAs) # 0
            THEN /\ va' = [va EXCEPT ![p] = NextVA(ret[p], @, numVAs)]
                 /\ offset' = [offset EXCEPT ![p] = 0]
                 /\ work' = [work EXCEPT ![p].requests = @ + 1]
                 /\ BeginRequest(p, "usage", Background)
                 /\ UNCHANGED uerr
            ELSE /\ pc' = [pc EXCEPT ![p] = "returned"]
                 /\ uerr' = [uerr EXCEPT ![p] = UsageError(ret[p])]
                 /\ resp' = [resp EXCEPT ![p] = NoResponse]
                 /\ ret' = [ret EXCEPT ![p] = NoErr]
                 /\ sink' = [sink EXCEPT ![p] = "untouched"]
                 /\ UNCHANGED <<calls, va, offset, op, ctx, startNow, tok, tokSrc, slot0, exch,
                                authStatus, wait, permit, waitErr, sent, bearer, work, closed>>
    /\ UNCHANGED <<now, token, limTokens, refilled, exchanges, dispatched, total, numVAs>>
    /\ UNCHANGED methodVars

\* ------------------------------------------------- single-request methods
\* A method returns before it has called makeRequest.
NoRequest(p, o) ==
    /\ pc' = [pc EXCEPT ![p] = "returned"]
    /\ op' = [op EXCEPT ![p] = o]
    /\ ctx' = [ctx EXCEPT ![p] = Background]
    /\ startNow' = [startNow EXCEPT ![p] = 0]
    /\ tok' = [tok EXCEPT ![p] = NilToken]
    /\ tokSrc' = [tokSrc EXCEPT ![p] = "none"]
    /\ slot0' = [slot0 EXCEPT ![p] = NilToken]
    /\ exch' = [exch EXCEPT ![p] = <<>>]
    /\ authStatus' = [authStatus EXCEPT ![p] = 0]
    /\ wait' = [wait EXCEPT ![p] = 0]
    /\ permit' = [permit EXCEPT ![p] = FALSE]
    /\ waitErr' = [waitErr EXCEPT ![p] = FALSE]
    /\ sent' = [sent EXCEPT ![p] = FALSE]
    /\ bearer' = [bearer EXCEPT ![p] = <<>>]
    /\ resp' = [resp EXCEPT ![p] = NoResponse]
    /\ ret' = [ret EXCEPT ![p] = NoErr]
    /\ sink' = [sink EXCEPT ![p] = "untouched"]
    /\ closed' = [closed EXCEPT ![p] = NoBodies]
    /\ UNCHANGED calls

\* The method m is called (after the caller's last method returned, if any):
\* it builds the request, which fails on a URL that does not parse, declares
\* its response variable and calls makeRequest(context.Background(), req, &v).
MethodCall(p, m, valid) ==
    /\ pc[p] \in {"idle", "returned"}
    /\ op[p] \in Methods \cup {"none"}
    /\ calls < MaxCalls
    /\ prev' = [prev EXCEPT ![p] =
                  IF pc[p] = "returned"
                  THEN [op |-> op[p], doc |-> doc[p], err |-> uerr[p], result |-> result[p]]
                  ELSE @]
    /\ doc' = [doc EXCEPT ![p] = <<>>]
    /\ out' = [out EXCEPT ![p] = <<>>]
    /\ IF m \in URLMethods /\ ~valid
       THEN /\ NoRequest(p, m)
            /\ work' = [work EXCEPT ![p] = NoWork]
            /\ uerr' = [uerr EXCEPT ![p] = MethodError(URLError)]
            /\ result' = [result EXCEPT ![p] = MethodResult(URLError, <<>>)]
       ELSE /\ BeginRequest(p, m, Background)
            /\ work' = [work EXCEPT ![p] = OneRequest]
            /\ uerr' = [uerr EXCEPT ![p] = NoErr]
            /\ result' = [result EXCEPT ![p] = NilResult]
    /\ UNCHANGED <<now, token, limTokens, refilled, exchanges, dispatched, total, numVAs>>
    /\ UNCHANGED <<lr, va, offset, licenses, fetched>>

\* The API answers a method's request 200 with the document d, which
\* makeRequest decodes into v.
DocResponse(p, d) ==
    /\ pc[p] = "inflight"
    /\ op[p] \in Methods
    /\ resp' = [resp EXCEPT ![p] = [status |-> StatusOK, body |-> "ok"]]
    /\ ret' = [ret EXCEPT ![p] = Classify(StatusOK, "ok").err]
    /\ sink' = [sink EXCEPT ![p] = Classify(StatusOK, "ok").sink]
    /\ doc' = [doc EXCEPT ![p] = d]
    /\ out' = [out EXCEPT ![p] = DecodeDoc(d)]
    /\ closed' = [closed EXCEPT ![p].api = @ + BodyCloses(Classify(StatusOK, "ok").err)]
    /\ pc' = [pc EXCEPT ![p] = "ret"]
    /\ UNCHANGED <<clientVars, pageVars, work, result, prev>>
    /\ UNCHANGED <<op, ctx, startNow, tok, tokSrc, slot0, exch, authStatus, wait, permit,
                   waitErr, sent, bearer>>

\* makeRequest has returned to the method: return nil, err or return &v, nil.
MethodReturn(p) ==
    /\ pc[p] = "ret"
    /\ op[p] \in Methods
    /\ pc' = [pc EXCEPT ![p] = "returned"]
    /\ uerr' = [uerr EXCEPT ![p] = MethodError(ret[p])]
    /\ result' = [result EXCEPT ![p] = MethodResult(ret[p], out[p])]
    /\ UNCHANGED <<clientVars, work, closed, doc, out, prev>>
    /\ UNCHANGED <<lr, va, offset, licenses, fetched>>
    /\ UNCHANGED <<op, ctx, startNow, tok, tokSrc, slot0, exch, authStatus, wait, permit,
                   waitErr, sent, bearer, resp, ret, sink>>

\* ------------------------------------------------------------ environment
\* The wall clock advances by one tick.
Tick ==
    /\ now < MaxNow
    /\ now' = now + 1
    /\ UNCHANGED <<token, limTokens, refilled, exchanges, dispatched, calls, total, numVAs>>
    /\ UNCHANGED <<callVars, pageVars>>
    /\ UNCHANGED <<work, closed, methodVars>>

\* One refill interval passes with the bucket below its burst: one permit more,
\* and every sleeping reservation is one interval nearer.
Refill ==
    /\ limTokens < Burst
    /\ limTokens' = limTokens + 1
    /\ refilled' = refilled + 1
    /\ wait' = [q \in Procs |-> IF wait[q] > 0 THEN wait[q] - 1 ELSE 0]
    /\ UNCHANGED <<now, token, exchanges, dispatched, calls, total, numVAs>>
    /\ UNCHANGED pageVars
    /\ UNCHANGED <<pc, op, ctx, startNow, tok, tokSrc, slot0, exch, authStatus, permit,
                   waitErr, sent, bearer, resp, ret, sink>>
    /\ UNCHANGED <<work, closed, methodVars>>

\* The caller cancels ctx, or its deadline passes, during the call.
CancelCtx(p) ==
    /\ pc[p] \notin {"idle", "ret"}
    /\ ctx[p].kind # "background"
    /\ ~ctx[p].done
    /\ ctx' = [ctx EXCEPT ![p].done = TRUE]
    /\ UNCHANGED <<clientVars, pageVars>>
    /\ UNCHANGED <<pc, op, startNow, tok, tokSrc, slot0, exch, authStatus, wait, permit,
                   waitErr, sent, bearer, resp, ret, sink>>
    /\ UNCHANGED <<work, closed, methodVars>>

\* The steps of makeRequest in a scenario: the callers, the authorization
\* endpoint's answers, the API's statuses and bodies.
Pipeline(Ps, Rs, Ss, Bs) ==
    \/ \E p \in Ps : GetTokenMemoised(p)
    \/ \E p \in Ps : GetTokenRefresh(p)
    \/ \E p \in Ps : ExchangeError(p)
    \/ \E p \in Ps, r \in Rs : ExchangeResponse(p, r)
    \/ \E p \in Ps : LimAllow(p)
    \/ \E p \in Ps : LimWait(p)
    \/ \E p \in Ps : WaitDone(p)
    \/ \E p \in Ps : Do(p)
    \/ \E p \in Ps : DoError(p)
    \/ \E p \in Ps, st \in Ss, b \in Bs : Response(p, st, b)
    \/ Refill

\* Callers of makeRequest with the contexts Cs, which may get done.
Callers(Ps, Cs) ==
    \/ \E p \in Ps, c \in Cs : Call(p, c)
    \/ \E p \in Ps : Return(p)
    \/ \E p \in Ps : CancelCtx(p)
    \/ \E p \in Ps : WaitCancelled(p)

\* One caller making one call after the other, with any context, against every
\* answer of the authorization endpoint and of the API, while the clock runs.
Next ==
    \/ Callers(Solo, Contexts)
    \/ Pipeline(Solo, AuthResponses, Statuses, Bodies)
    \/ Tick

Spec == Init /\ [][Next]_vars

\* Callers sharing the client, with any context; the endpoints answer well.
OkResponses == {r \in AuthResponses : r.body = "token" /\ r.ExpiresIn = FiveMinutes + 1}
NextShared ==
    \/ Callers(Procs, Contexts)
    \/ Pipeline(Procs, OkResponses, {StatusOK}, {"ok"})

SpecShared == Init /\ [][NextShared]_vars

\* One caller of GetSmartLicenseUsage against the paged upstream; any request
\* of the loop may fail.
InitPage ==
    /\ InitClient
    /\ InitCallers
    /\ total \in Totals
    /\ numVAs \in 0 .. MaxVAs

NextPage ==
    \/ \E p \in Solo : UsageCall(p)
    \/ \E p \in Solo : PageResult(p)
    \/ Pipeline(Solo, OkResponses \cup {r \in AuthResponses : r.body = "malformed"},
                Statuses, Bodies)

SpecPage == InitPage /\ [][NextPage]_vars

\* One caller of GetSmartLicenseUsage against an upstream whose pages need not
\* agree with each other: any length, any total, or a failure.
InitUpstream ==
    /\ InitClient
    /\ InitCallers
    /\ total = 0
    /\ numVAs \in 1 .. MaxLoopVAs

NextUpstream ==
    \/ \E p \in Solo : UsageCall(p)
    \/ \E p \in Solo : PageResult(p)
    \/ \E p \in Solo, T \in PageTotals, n \in PageSizes : PageResponse(p, T, n)
    \/ Pipeline(Solo, OkResponses, {500}, {"ok"})

SpecUpstream == InitUpstream /\ [][NextUpstream]_vars

\* The same, with every request returning and the caller running on: a step
\* that can be taken is taken.
FairUpstream == SpecUpstream /\ WF_vars(NextUpstream)

\* One caller of the single-request methods, one call after the other, against
\* every answer of the authorization endpoint, and an API that answers with a
\* document, an error status, or a body that does not decode.
NextMethod ==
    \/ \E p \in Solo, m \in Methods, valid \in BOOLEAN : MethodCall(p, m, valid)
    \/ \E p \in Solo : MethodReturn(p)
    \/ \E p \in Solo, d \in Docs : DocResponse(p, d)
    \/ Pipeline(Solo, OkResponses \cup {r \in AuthResponses : r.body # "token"},
                {StatusOK, 401, 418}, {"syntax", "type"})

SpecMethod == Init /\ [][NextMethod]_vars

\* ================================================================= claims
\* A call that is past getToken's test of the cache.
PastTest(p) == pc[p] \in {"exchange", "limiter", "waiting", "do", "inflight", "ret"}
\* getToken handed makeRequest a token.
HasToken(p) == pc[p] \in {"limiter", "waiting", "do", "inflight"} \/ (pc[p] = "ret" /\ tok[p].id # 0)
\* The lifetime left, in ticks, of the token getToken found, at the time it read.
Remaining(p) == slot0[p].ExpiresAt * TicksPerSecond - startNow[p]

\* C1 (one caller at a time): a getToken call that finds in the slot a token expiring more than five
\* minutes after the time it read sends no token exchange, returns that very
\* token (the same allocation, the same fields) and leaves the slot as it was.
C1_Memoisation ==
    \A p \in Solo :
        (PastTest(p) /\ slot0[p].id # 0 /\ Remaining(p) > FiveMinutes * TicksPerSecond)
            => /\ exch[p] = <<>>
               /\ pc[p] # "exchange"
               /\ tokSrc[p] = "cache"
               /\ tok[p] = slot0[p]
               /\ token = slot0[p]

C1_Witness ==
    \E p \in Solo :
        /\ pc[p] = "limiter" /\ slot0[p].id # 0
        /\ Remaining(p) > FiveMinutes * TicksPerSecond
        /\ tok[p] = slot0[p] /\ exch[p] = <<>> /\ startNow[p] > 0

\* C2 (as amended): a getToken call that finds the slot empty and whose exchange
\* succeeds has sent exactly one exchange; the returned token's expires_at is
\* the time read at the start of the call, cut down to a whole second, plus
\* expires_in seconds; and the slot holds exactly the returned token, a new
\* allocation with the fields of the answer.
C2_Refresh ==
    \A p \in Solo :
        (PastTest(p) /\ slot0[p].id = 0 /\ tokSrc[p] = "exchange")
            => /\ Len(exch[p]) = 1
               /\ tok[p].ExpiresAt * TicksPerSecond
                    = (startNow[p] - (startNow[p] % TicksPerSecond)) + tok[p].ExpiresIn * TicksPerSecond
               /\ token = tok[p]
               /\ tok[p].id = exch[p][1]
               /\ tok[p].AccessToken = (IF authStatus[p] = 200 THEN <<"access_token", tok[p].id>> ELSE <<>>)

\* C2 as stated: expires_at is the time read at the start of the call plus
\* expires_in seconds.
C2_Original ==
    \A p \in Solo :
        (PastTest(p) /\ slot0[p].id = 0 /\ tokSrc[p] = "exchange")
            => /\ Len(exch[p]) = 1
               /\ tok[p].ExpiresAt * TicksPerSecond = startNow[p] + tok[p].ExpiresIn * TicksPerSecond
               /\ token = tok[p]

C2_Witness ==
    \E p \in Solo :
        /\ pc[p] = "limiter" /\ slot0[p].id = 0 /\ tokSrc[p] = "exchange"
        /\ startNow[p] % TicksPerSecond # 0
        /\ tok[p].ExpiresIn > 0 /\ token = tok[p]

\* C3: a getToken call that finds in the slot a token with five minutes or less
\* left (exactly five minutes, or already expired) does not return it: it sends
\* a token exchange, and a token reaches the request executor only from that
\* exchange.
C3_ExpiryThreshold ==
    \A p \in Solo :
        (PastTest(p) /\ slot0[p].id # 0 /\ Remaining(p) <= FiveMinutes * TicksPerSecond)
            => /\ Len(exch[p]) = 1
               /\ tokSrc[p] # "cache"
               /\ HasToken(p) => (tokSrc[p] = "exchange" /\ tok[p].id = exch[p][1]
                                  /\ tok[p].id # slot0[p].id)

C3_Witness ==
    \E p \in Solo :
        /\ pc[p] = "limiter" /\ slot0[p].id # 0
        /\ Remaining(p) = FiveMinutes * TicksPerSecond
        /\ tokSrc[p] = "exchange"

C3_WitnessExpired ==
    \E p \in Solo :
        /\ pc[p] = "exchange" /\ slot0[p].id # 0 /\ Remaining(p) < 0

\* makeRequest returned after a response with this status.
Answered(p, status) == pc[p] = "ret" /\ resp[p].status = status

\* C4: a response with status 400, 401, 403, 404 or 500 makes makeRequest return
\* ErrBadRequest, ErrUnauthorized, ErrForbidden, ErrNotFound or ErrInternalError
\* and leaves the result sink as it was; with status 200 the body is decoded
\* into the sink, and a body that does not decode is returned as an error that
\* is none of the sentinels.
C4_MappedStatuses ==
    \A p \in Solo :
        /\ Answered(p, 400) => (ret[p].kind = "ccw: bad request" /\ sink[p] = "untouched")
        /\ Answered(p, 401) => (ret[p].kind = "ccw: unauthorized request" /\ sink[p] = "untouched")
        /\ Answered(p, 403) => (ret[p].kind = "ccw: forbidden" /\ sink[p] = "untouched")
        /\ Answered(p, 404) => (ret[p].kind = "ccw: not found" /\ sink[p] = "untouched")
        /\ Answered(p, 500) => (ret[p].kind = "ccw: internal error" /\ sink[p] = "untouched")
        /\ (Answered(p, 200) /\ resp[p].body = "ok") => (ret[p] = NoErr /\ sink[p] = "decoded")
        /\ (Answered(p, 200) /\ resp[p].body # "ok")
               => (ret[p] # NoErr /\ ret[p] \notin Sentinels /\ sink[p] # "decoded")

C4_Witness ==
    \E p \in Solo : Answered(p, 403) /\ ret[p] = ErrForbidden /\ sink[p] = "untouched"

C4_WitnessDecodeFailure ==
    \E p \in Solo : Answered(p, 200) /\ resp[p].body = "type" /\ ret[p] = DecodeError

\* C5: a response with status 201 makes makeRequest return no error, without
\* decoding the body.
C5_Created ==
    \A p \in Solo : Answered(p, 201) => (ret[p] = NoErr /\ sink[p] = "untouched")

C7_RateLimit ==
    /\ \A p \in Procs : sent[p] => permit[p]
    /\ dispatched <= Burst + refilled

\* C7, the count alone.
C7_Count == dispatched <= Burst + refilled

\* C8: when c.lim.Wait(ctx) gives up (ctx cancelled during the wait, or its
\* deadline cannot be met), no API request is sent for that call and
\* makeRequest returns a cancellation error.
C8_CancelledWait ==
    \A p \in Solo :
        waitErr[p] => (~sent[p] /\ (pc[p] = "ret" => ret[p] = ContextError))

\* Total items of the upstream in order, for one virtual account.
AllItems(v, T) == [i \in 1 .. T |-> <<v, i - 1>>]
AllOk(f) == \A i \in 1 .. Len(f) : f[i].ok

\* C9: for one virtual account and no failing page, GetSmartLicenseUsage
\* returns exactly the upstream's T items, each once and in upstream order,
\* having requested the offsets 0, 100, 200, ... in this order; for T = 250 it
\* fetches three pages of 100, 100 and 50 items.
C9_PaginationComplete ==
    \A p \in Solo :
        (pc[p] = "returned" /\ numVAs = 1 /\ AllOk(fetched[p]))
            => /\ licenses[p] = AllItems(1, total)
               /\ uerr[p] = NoErr
               /\ Len(fetched[p]) >= 1
               /\ \A i \in 1 .. Len(fetched[p]) : fetched[p][i].offset = (i - 1) * 100
               /\ total = 250 => [i \in 1 .. Len(fetched[p]) |-> fetched[p][i].n] = <<100, 100, 50>>

C9_Witness ==
    \E p \in Solo :
        /\ pc[p] = "returned" /\ numVAs = 1 /\ AllOk(fetched[p])
        /\ total = 250 /\ Len(licenses[p]) = 250 /\ Len(fetched[p]) = 3

\* The items of the pages of f that were fetched successfully, in order.
RECURSIVE ItemsOf(_, _)
ItemsOf(f, T) ==
    IF f = <<>> THEN <<>>
    ELSE LET k == Len(f)
             e == f[k]
             lo == e.offset
             hi == IF e.offset + 100 < T THEN e.offset + 100 ELSE T
         IN ItemsOf(SubSeq(f, 1, k - 1), T)
              \o (IF e.ok /\ hi > lo THEN [i \in 1 .. hi - lo |-> <<e.va, lo + i - 1>>] ELSE <<>>)

\* C10: when makeRequest fails for a page, GetSmartLicenseUsage returns a nil
\* error and a result holding the items of the pages fetched successfully
\* (none if the first page failed) and no item of a failed page.
C10_PartialFailure ==
    \A p \in Solo :
        (pc[p] = "returned" /\ ~AllOk(fetched[p]))
            => /\ uerr[p] = NoErr
               /\ licenses[p] = ItemsOf(fetched[p], total)
               /\ (~fetched[p][1].ok /\ numVAs = 1) => licenses[p] = <<>>

C10_Witness ==
    \E p \in Solo :
        /\ pc[p] = "returned" /\ numVAs = 1 /\ Len(fetched[p]) = 2
        /\ fetched[p][1].ok /\ ~fetched[p][2].ok
        /\ Len(licenses[p]) = 100

C10_WitnessFirstPage ==
    \E p \in Solo :
        /\ pc[p] = "returned" /\ numVAs = 1 /\ total = 250
        /\ ~fetched[p][1].ok /\ licenses[p] = <<>>

\* Two pages of f requested one after the other for the same virtual account.
NextPageOf(f, i) == i < Len(f) /\ f[i].va = f[i + 1].va

\* C11: no further page of a virtual account is requested after a page that
\* returned fewer items than the page size, nor after a page whose offset,
\* advanced by the page size, exceeds the total that page reported.
C11_StopCondition ==
    \A p \in Solo : \A i \in 1 .. Len(fetched[p]) :
        (fetched[p][i].ok /\ NextPageOf(fetched[p], i))
            => /\ fetched[p][i].n >= limit
               /\ fetched[p][i].offset + limit <= fetched[p][i].total

\* C11, the half the loop does test: the total.
C11_TotalStop ==
    \A p \in Solo : \A i \in 1 .. Len(fetched[p]) :
        (fetched[p][i].ok /\ NextPageOf(fetched[p], i))
            => /\ fetched[p][i].total >= limit
               /\ fetched[p][i].offset + limit <= fetched[p][i].total

\* The pages of f requested for the virtual account v.
FetchesOf(f, v) == Cardinality({i \in 1 .. Len(f) : f[i].va = v})
\* The most pages one virtual account takes when no reported total exceeds N.
MaxFetches(N) == N \div limit + 1

\* C12: whatever pages the upstream answers with, its totals bounded by
\* MaxTotal, no virtual account is asked for more than MaxTotal/100 + 1 pages
\* (rounded down), the request under way included, and, every request
\* returning, GetSmartLicenseUsage returns.
C12_Termination ==
    /\ [](\A p \in Solo :
            /\ \A v \in 1 .. numVAs : FetchesOf(fetched[p], v) <= MaxFetches(MaxTotal)
            /\ offset[p] \div limit + 1 <= MaxFetches(MaxTotal))
    /\ <>(\A p \in Solo : pc[p] = "returned")

\* The longest loop: full pages and the largest total, every time.
C12_Witness ==
    \E p \in Solo :
        /\ pc[p] = "returned"
        /\ FetchesOf(fetched[p], numVAs) = MaxFetches(MaxTotal)
        /\ \A i \in 1 .. Len(fetched[p]) :
              fetched[p][i].ok /\ fetched[p][i].n = limit /\ fetched[p][i].total = MaxTotal

\* A token as one successful exchange builds it: the access_token of that
\* exchange's answer, and expires_at computed from its expires_in.
Complete(tk) ==
    /\ tk.AccessToken = <<"access_token", tk.id>>
    /\ tk.id \in 1 .. exchanges
    /\ tk.ExpiresIn > 0
    /\ tk.ExpiresAt - tk.ExpiresIn \in 0 .. Unix(now)

\* C13: with calls interleaving in getToken, the token slot is empty or holds
\* one complete token of a single successful exchange, and so is what any call
\* reads from it (never a partly built token); every call goes on with a token
\* it obtained itself or the cached one, its request bearing that token's
\* access_token; the slot holds the token written last.
C13_ConcurrentRefresh ==
    /\ token.id # 0 => Complete(token)
    /\ \A p \in Procs :
          /\ (PastTest(p) /\ slot0[p].id # 0) => Complete(slot0[p])
          /\ HasToken(p) =>
                /\ \/ tokSrc[p] = "exchange" /\ tok[p].id = exch[p][Len(exch[p])]
                   \/ tokSrc[p] = "cache" /\ tok[p].id = slot0[p].id
                /\ Complete(tok[p])
                /\ bearer[p] = tok[p].AccessToken
    /\ (\A p \in Procs : pc[p] \in {"idle", "ret"}) => (exchanges = 0 \/ token.id = 0 \/ Complete(token))

\* C13 without what a call reads while the slot is being written: the contents
\* of the slot and the provenance of the tokens the calls go on with.
C13_SlotContents ==
    /\ token.id # 0 => Complete(token)
    /\ \A p \in Procs :
          HasToken(p) =>
                /\ \/ tokSrc[p] = "exchange" /\ tok[p].id = exch[p][Len(exch[p])]
                   \/ tokSrc[p] = "cache" /\ tok[p].id = slot0[p].id
                /\ Complete(tok[p])

\* The method of caller p has returned.
Returned(p) == pc[p] = "returned" /\ op[p] \in Methods

\* C14: an invocation of a single-request method sends at most one token
\* exchange and at most one API request, in one makeRequest call; and when
\* makeRequest failed, the method returns that very error and a nil result.
C14_NoRetry ==
    \A p \in Solo :
        op[p] \in Methods =>
            /\ work[p].requests <= 1 /\ work[p].exchanges <= 1 /\ work[p].sends <= 1
            /\ (Returned(p) /\ work[p].requests = 1 /\ ret[p] # NoErr)
                   => (uerr[p] = ret[p] /\ result[p].nil)
            /\ (Returned(p) /\ work[p].requests = 1 /\ ret[p] = NoErr)
                   => (uerr[p] = NoErr /\ ~result[p].nil)

\* A classified status error, after one exchange and one dispatch.
C14_Witness ==
    \E p \in Solo :
        /\ Returned(p) /\ op[p] = "GetVirtualAccounts"
        /\ work[p] = [requests |-> 1, exchanges |-> 1, sends |-> 1]
        /\ uerr[p] = ErrUnauthorized /\ result[p].nil

\* A token error: no dispatch at all.
C14_WitnessTokenError ==
    \E p \in Solo :
        /\ Returned(p) /\ op[p] = "SearchSubscriptions"
        /\ work[p] = [requests |-> 1, exchanges |-> 1, sends |-> 0]
        /\ uerr[p] = TransportError /\ result[p].nil

\* C15: a SearchSubscriptions call that succeeds returns one entry for every
\* entry of the upstream's answer, in the same order and as many times as it
\* came (nothing removed, nothing merged); and two such calls in a row that
\* were given the same answer return equal results.
C15_SearchDeterminism ==
    \A p \in Solo :
        (Returned(p) /\ op[p] = "SearchSubscriptions" /\ uerr[p] = NoErr)
            => /\ ~result[p].nil
               /\ Len(result[p].entries) = Len(doc[p])
               /\ \A i \in 1 .. Len(doc[p]) : result[p].entries[i].SubRefID = doc[p][i].subRefId
               /\ (prev[p].op = "SearchSubscriptions" /\ prev[p].err = NoErr /\ prev[p].doc = doc[p])
                      => prev[p].result = result[p]

\* Two searches in a row, both answered with the same entry twice.
C15_Witness ==
    \E p \in Solo :
        /\ Returned(p) /\ op[p] = "SearchSubscriptions" /\ uerr[p] = NoErr
        /\ prev[p].op = "SearchSubscriptions" /\ prev[p].err = NoErr /\ prev[p].doc = doc[p]
        /\ doc[p] = <<[subRefId |-> "B"], [subRefId |-> "B"]>>
        /\ Len(result[p].entries) = 2

\* The steps of a makeRequest call that have been taken: getToken returned a
\* token, the limiter was gone through, the request was sent, the response
\* was classified.
TokenStep(p) == tokSrc[p] # "none" /\ tok[p].id # 0
LimiterStep(p) == permit[p] \/ waitErr[p]
DispatchStep(p) == sent[p]
ClassifyStep(p) == resp[p].status # 0

C16_WitnessTokenError ==
    \E p \in Solo :
        pc[p] = "ret" /\ ~TokenStep(p) /\ authStatus[p] = StatusOK /\ ret[p] = DecodeError

\* The authorization endpoint answered this call's exchange with a status
\* other than 200.
Rejected(p) == authStatus[p] \notin {0, StatusOK}

\* C17: when the authorization endpoint rejects the exchange, getToken fails
\* with an error, the token slot is not filled from that answer, and the
\* makeRequest call sends no API request.
C17_RejectedExchange ==
    \A p \in Solo :
        Rejected(p) =>
            /\ pc[p] = "ret" /\ ret[p] # NoErr
            /\ tok[p].id = 0
            /\ token = slot0[p]
            /\ ~sent[p]

\* C18: when makeRequest returns after HTTPClient.Do gave it a response
\* (decoded, not decodable, a mapped status or an unknown one), that response's
\* body has been closed exactly once; when getToken returns after the
\* authorization endpoint answered, that answer's body has been closed exactly
\* once; and nothing is closed where there was no response.
C18_BodyClosed ==
    \A p \in Solo :
        /\ (pc[p] = "ret" /\ resp[p].status # 0) => closed[p].api = 1
        /\ (PastTest(p) /\ authStatus[p] # 0) => closed[p].auth = 1
        /\ resp[p].status = 0 => closed[p].api = 0
        /\ authStatus[p] = 0 => closed[p].auth = 0

\* Both bodies closed on error paths: a token of a rejected exchange, then an
\* unknown status.
C18_Witness ==
    \E p \in Solo :
        /\ pc[p] = "ret" /\ resp[p].status = 418 /\ ret[p] = UnknownError(418)
        /\ authStatus[p] # 0
        /\ closed[p] = [auth |-> 1, api |-> 1]

\* getToken fails on the answer's body.
C18_WitnessDecodeFailure ==
    \E p \in Solo :
        pc[p] = "ret" /\ ret[p] = DecodeError /\ resp[p].status = 0 /\ closed[p] = [auth |-> 1, api |-> 0]

\* C19: when the refresh of a getToken call fails (no answer, or an answer
\* that does not decode), the token slot holds what it held when the call
\* began, empty or the token found near its expiry; makeRequest gets an error
\* and no token; and the call has sent one exchange, not a second.
C19_FailedRefresh ==
    \A p \in Solo :
        (pc[p] = "ret" /\ Len(exch[p]) > 0 /\ tokSrc[p] = "none")
            => /\ token = slot0[p]
               /\ tok[p] = NilToken
               /\ ret[p] \in {TransportError, DecodeError}
               /\ Len(exch[p]) = 1 /\ work[p].exchanges = 1

\* A decode failure with a token near its expiry in the slot.
C19_Witness ==
    \E p \in Solo :
        /\ pc[p] = "ret" /\ tokSrc[p] = "none" /\ ret[p] = DecodeError
        /\ slot0[p].id # 0 /\ slot0[p].AccessToken # <<>> /\ token = slot0[p]

\* A network failure with the slot empty.
C19_WitnessEmpty ==
    \E p \in Solo :
        pc[p] = "ret" /\ tokSrc[p] = "none" /\ ret[p] = TransportError /\ token = NilToken

\* C20: a failed page ends the paging of its own virtual account only: the
\* next request is the first page (offset 0) of the next virtual account, every
\* virtual account of the list is paged from offset 0 in the list's order, and
\* what is returned is, in that order, the items of all the pages fetched
\* successfully.
C20_FailureIsolation ==
    \A p \in Solo :
        pc[p] = "returned" =>
            LET f == fetched[p] IN
            /\ \A v \in 1 .. numVAs :
                  \E i \in 1 .. Len(f) :
                      /\ f[i].va = v /\ f[i].offset = 0
                      /\ IF i = 1 THEN v = 1 ELSE f[i - 1].va = v - 1
            /\ \A i \in 1 .. Len(f) :
                  ~f[i].ok => IF i = Len(f) THEN f[i].va = numVAs
                              ELSE f[i + 1].va = f[i].va + 1 /\ f[i + 1].offset = 0
            /\ licenses[p] = ItemsOf(f, total)
            /\ uerr[p] = NoErr

\* The second page of the first virtual account fails; the second virtual
\* account is fetched in full.
C20_Witness ==
    \E p \in Solo :
        /\ pc[p] = "returned" /\ numVAs = 2 /\ total = 250
        /\ Len(fetched[p]) = 5
        /\ fetched[p][1].ok /\ ~fetched[p][2].ok /\ fetched[p][2].va = 1
        /\ fetched[p][3].va = 2 /\ fetched[p][3].offset = 0
        /\ licenses[p] = [i \in 1 .. 100 |-> <<1, i - 1>>] \o AllItems(2, 250)

====
